---- MODULE Spec2Model ----
(***************************************************************************)
(* Property Match Recommender (src/streamlit_app.py).                      *)
(*                                                                         *)
(* The script's helpers are pure functions over a table (a pandas          *)
(* DataFrame, here a sequence of rows) or over one row (a pandas Series,   *)
(* here a function from column names to cells).  Each group of helpers is  *)
(* exercised by a specification of its own whose Init draws the inputs     *)
(* from a bounded set and whose actions apply the helpers:                 *)
(*   SpecRow     clamp01, generate_reason, compute_weighted_contributions  *)
(*   SpecFilter  apply_filters                                             *)
(*   SpecRank    the sort / search / head(top_k) stages of the script      *)
(*   SpecNorm    ensure_columns                                            *)
(*                                                                         *)
(* Numbers.  A cell is a record [t, v]:                                    *)
(*   t = "num"    a float; v is the value in the column's unit             *)
(*                (similarities and g_budget in hundredths, so 0.80 is 80; *)
(*                weighted contributions in ten-thousandths)               *)
(*   t = "nan"    the float not-a-number                                   *)
(*   t = "text"   a value float() rejects (a non-numeric string, None)     *)
(*   t = "absent" the key is not in the row (row.get returns its default)  *)
(* Comparisons follow IEEE 754 as numpy and Python apply it: every         *)
(* comparison with not-a-number is false.                                  *)
(***************************************************************************)
EXTENDS Integers, Sequences, FiniteSets, TLC

VARIABLES
    pc,             \* which helper has been applied to the inputs
    row,            \* SpecRow: the row handed to the per-row helpers
    reason,         \* SpecRow: generate_reason(row)
    contrib,        \* SpecRow: compute_weighted_contributions(row)
    clamped,        \* SpecRow: clamp01 of every similarity cell of row
    reclamped,      \* SpecRow: clamp01 applied to clamped
    user_df,        \* SpecFilter: the selected user's rows, best score first
    criteria,       \* SpecFilter: the arguments given to apply_filters
    filtered,       \* apply_filters(user_df, ...), the input of the ranking
    sort_choice,    \* SpecRank: the "Sort by" selection
    search_pid,     \* SpecRank: the text of the Property ID search box
    top_k,          \* SpecRank: the Top-K slider
    sorted_df,      \* SpecRank: `filtered` after sort_values
    searched_df,    \* SpecRank: `filtered` after the search
    display_df,     \* SpecRank: the displayed table
    raw_df,         \* SpecNorm: the table as read from the CSV
    recs_all        \* SpecNorm: ensure_columns(raw_df)

rowVars == <<row, reason, contrib, clamped, reclamped>>
filterVars == <<user_df, criteria>>
rankVars == <<sort_choice, search_pid, top_k, sorted_df, searched_df, display_df>>
normVars == <<raw_df, recs_all>>
vars == <<pc, rowVars, filterVars, filtered, rankVars, normVars>>

(***************************************************************************)
(* Floats                                                                  *)
(***************************************************************************)
Num(n) == [t |-> "num", v |-> n]
NaN == [t |-> "nan", v |-> 0]
Text == [t |-> "text", v |-> 0]
Absent == [t |-> "absent", v |-> 0]

IsNaN(x) == x.t = "nan"
\* a >= b and a <= b on floats: false when either side is not-a-number
Ge(a, b) == a.t = "num" /\ b.t = "num" /\ a.v >= b.v
Le(a, b) == a.t = "num" /\ b.t = "num" /\ a.v <= b.v
\* a == b on floats: not-a-number equals nothing, itself included
FloatEq(a, b) == a.t = "num" /\ b.t = "num" /\ a.v = b.v

Min(a, b) == IF a <= b THEN a ELSE b
Max(a, b) == IF a >= b THEN a ELSE b

\* seq[:n]
Take(seq, n) == SubSeq(seq, 1, Min(n, Len(seq)))

\* row.get(k, default)
Get(r, k, default) == IF r[k].t = "absent" THEN default ELSE r[k]

(***************************************************************************)
(* Config                                                                  *)
(***************************************************************************)
\* weights, in hundredths
W == [price |-> 30, bed |-> 18, bath |-> 10, type |-> 12,
      cond |-> 8, year |-> 7, size |-> 7, loc |-> 8]

COMP_COLS == <<"s_price", "s_bed", "s_bath", "s_type",
               "s_cond", "s_year", "s_size", "s_loc">>

\* the keys of `parts`, in insertion order: the canonical component order
PartKeys == <<"price", "bed", "bath", "type", "cond", "year", "size", "loc">>

mapping == [s_price |-> "price fit", s_bed |-> "bedroom match",
            s_bath |-> "bathroom match", s_type |-> "property type match",
            s_cond |-> "condition match", s_year |-> "modernity/year match",
            s_size |-> "size/spaciousness match",
            s_loc |-> "location intent match"]

(***************************************************************************)
(* Helpers                                                                 *)
(***************************************************************************)
\* float(x) raises on a non-numeric value and the default is returned;
\* float(nan) is nan and raises nothing
safe_float(x, default) == IF x.t = "text" THEN default ELSE x

\* np.clip(x, lo, hi): not-a-number stays not-a-number
np_clip(x, lo, hi) == IF IsNaN(x) THEN NaN ELSE Num(Min(Max(x.v, lo), hi))

clamp01(x) == np_clip(safe_float(x, Num(0)), 0, 100)

(***************************************************************************)
(* DataFrame.sort_values(col, ascending=...)                               *)
(*                                                                         *)
(* The script never passes `kind`, so pandas sorts with its default,       *)
(* kind="quicksort", which numpy documents as not stable: rows whose keys  *)
(* are equal may come out in any order (numpy's introsort swaps equal keys *)
(* once a partition exceeds 16 items, and its SIMD sort paths do so at any *)
(* size).  The model therefore returns every order the sort may produce.   *)
(* pandas (nargsort) takes the not-a-number keys out before sorting and    *)
(* appends them, in their input order, at the end.                         *)
(***************************************************************************)
SetMin(S) == CHOOSE i \in S : \A j \in S : i <= j

\* the positions of S that may come first in the sorted order
Firsts(keys, ascending, S) ==
    LET nn == {i \in S : ~IsNaN(keys[i])}
    IN  IF nn = {} THEN {SetMin(S)}
        ELSE {i \in nn : \A j \in nn :
                IF ascending THEN keys[i].v <= keys[j].v
                             ELSE keys[i].v >= keys[j].v}

RECURSIVE ArgSortsOf(_, _, _)
ArgSortsOf(keys, ascending, S) ==
    IF S = {} THEN {<<>>}
    ELSE UNION {{<<i>> \o rest : rest \in ArgSortsOf(keys, ascending, S \ {i})} :
                i \in Firsts(keys, ascending, S)}

\* every indexer the default sort may return for a key column
nargsort(keys, ascending) == ArgSortsOf(keys, ascending, DOMAIN keys)

\* every frame df.sort_values(col, ascending=ascending) may return
sort_values(df, col, ascending) ==
    {[j \in 1..Len(df) |-> df[p[j]]] :
        p \in nargsort([i \in 1..Len(df) |-> df[i][col]], ascending)}

(***************************************************************************)
(* compute_weighted_contributions                                          *)
(***************************************************************************)
\* weight * similarity, in ten-thousandths; not-a-number propagates
Times(w, x) == IF IsNaN(x) THEN NaN ELSE Num(w * x.v)

\* the frame built from `parts`, one line per component, before sorting
parts(r) ==
    [i \in 1..Len(PartKeys) |->
        [component |-> PartKeys[i],
         weighted_contribution |->
            Times(W[PartKeys[i]], clamp01(Get(r, COMP_COLS[i], Num(50))))]]

compute_weighted_contributions(r) ==
    sort_values(parts(r), "weighted_contribution", FALSE)

(***************************************************************************)
(* generate_reason                                                         *)
(***************************************************************************)
\* the budget bullet, if any
BudgetBullets(r) ==
    LET g == safe_float(Get(r, "g_budget", NaN), NaN)
    IN  IF IsNaN(g) THEN <<>>
        ELSE IF Ge(g, Num(98)) THEN <<[kind |-> "budget", text |-> <<"within budget">>]>>
        ELSE IF Ge(g, Num(85))
             THEN <<[kind |-> "budget", text |-> <<"slightly above budget (small penalty)">>]>>
        ELSE <<[kind |-> "budget", text |-> <<"over budget (strong penalty)">>]>>

IsStrong(r, k) == Ge(clamp01(Get(r, k, Num(50))), Num(80))
IsWeak(r, k) == Le(clamp01(Get(r, k, Num(50))), Num(35))

RECURSIVE LabelsFrom(_, _, _)
\* the labels of the components from position i on that satisfy `which`
LabelsFrom(r, which, i) ==
    IF i > Len(COMP_COLS) THEN <<>>
    ELSE LET k == COMP_COLS[i]
             hit == IF which = "strong" THEN IsStrong(r, k) ELSE IsWeak(r, k)
         IN  (IF hit THEN <<mapping[k]>> ELSE <<>>) \o LabelsFrom(r, which, i + 1)

strong(r) == LabelsFrom(r, "strong", 1)
weak(r) == LabelsFrom(r, "weak", 1)

TradeoffsGateAlways(bullets) == TRUE
TradeoffsGateUpTo2(bullets) == Len(bullets) <= 2
\* `len(bullets) < 2`: the trade-offs bullet is added only if needed
TradeoffsGate(bullets) == Len(bullets) < 2

\* The returned string is " • ".join(bullets).capitalize() + ".", or the
\* fixed sentence when there is no bullet.  It is kept as its list of
\* bullets, each with its kind and the labels it joins with ", ".
generate_reason(r) ==
    LET b1 == BudgetBullets(r)
        b2 == IF strong(r) # <<>>
              THEN b1 \o <<[kind |-> "strong on", text |-> Take(strong(r), 3)]>>
              ELSE b1
        b3 == IF weak(r) # <<>> /\ TradeoffsGate(b2)
              THEN b2 \o <<[kind |-> "trade-offs", text |-> Take(weak(r), 2)]>>
              ELSE b2
    IN  IF b3 = <<>>
        THEN [balanced |-> TRUE, bullets |-> <<>>]
        ELSE [balanced |-> FALSE, bullets |-> b3]

(***************************************************************************)
(* SpecRow: the per-row helpers applied to one row                         *)
(***************************************************************************)
\* similarity cells of a raw, unnormalized row
RichCells == {Absent, NaN, Text, Num(-10), Num(35), Num(36), Num(79), Num(80), Num(120)}
PlainCells == {Num(20), Num(50), Num(100)}
EdgeCells == {Num(20), Num(100)}
\* g_budget cells
GateCells == {Absent, NaN, Text, Num(84), Num(85), Num(97), Num(98)}

Rows == [s_price : RichCells, s_bed : PlainCells, s_bath : PlainCells,
         s_type : PlainCells, s_cond : EdgeCells, s_year : EdgeCells,
         s_size : EdgeCells, s_loc : EdgeCells, g_budget : GateCells]

NoReason == [balanced |-> FALSE, bullets |-> <<>>]
NoCriteria == [loc_filter |-> {}, type_filter |-> {}, cond_filter |-> {},
               price_range |-> <<>>, size_range |-> <<>>,
               min_score |-> 0, min_budget_gate |-> 0]

\* the variables of the other specifications, at rest
RowIdle ==
    /\ row = <<>>
    /\ reason = NoReason
    /\ contrib = <<>>
    /\ clamped = <<>>
    /\ reclamped = <<>>
FilterIdle ==
    /\ user_df = <<>>
    /\ criteria = NoCriteria
RankIdle ==
    /\ sort_choice = ""
    /\ search_pid = <<>>
    /\ top_k = 0
    /\ sorted_df = <<>>
    /\ searched_df = <<>>
    /\ display_df = <<>>

NoTable == [columns |-> {}, rows |-> <<>>]
NormIdle ==
    /\ raw_df = NoTable
    /\ recs_all = NoTable

InitRow ==
    /\ pc = "row"
    /\ row \in Rows
    /\ reason = NoReason
    /\ contrib = <<>>
    /\ clamped = <<>>
    /\ reclamped = <<>>
    /\ FilterIdle
    /\ filtered = <<>>
    /\ RankIdle
    /\ NormIdle

GenerateReason ==
    /\ pc = "row"
    /\ reason' = generate_reason(row)
    /\ pc' = "reason"
    /\ UNCHANGED <<row, contrib, clamped, reclamped>>
    /\ UNCHANGED <<filterVars, filtered, rankVars, normVars>>

ComputeWeightedContributions ==
    /\ pc = "row"
    /\ contrib' \in compute_weighted_contributions(row)
    /\ pc' = "contrib"
    /\ UNCHANGED <<row, reason, clamped, reclamped>>
    /\ UNCHANGED <<filterVars, filtered, rankVars, normVars>>

Clamp01 ==
    /\ pc = "row"
    /\ clamped' = [i \in 1..Len(COMP_COLS) |->
                        clamp01(Get(row, COMP_COLS[i], Num(50)))]
    /\ reclamped' = [i \in 1..Len(COMP_COLS) |->
                        clamp01(clamp01(Get(row, COMP_COLS[i], Num(50))))]
    /\ pc' = "clamp01"
    /\ UNCHANGED <<row, reason, contrib>>
    /\ UNCHANGED <<filterVars, filtered, rankVars, normVars>>

NextRow == GenerateReason \/ ComputeWeightedContributions \/ Clamp01

SpecRow == InitRow /\ [][NextRow]_vars

(***************************************************************************)
(* Claims about the per-row helpers (checked under SpecRow)                *)
(***************************************************************************)
HasKind(bullets, kind) == \E i \in 1..Len(bullets) : bullets[i].kind = kind

\* C6: generate_reason emits at most 3 clauses, a "trade-offs" clause has
\* fewer than 2 clauses before it, and no output holds a budget clause, a
\* "strong on" clause and a "trade-offs" clause together.
C6_ReasonClauseBound ==
    pc = "reason" =>
        /\ Len(reason.bullets) <= 3
        /\ \A i \in 1..Len(reason.bullets) :
              reason.bullets[i].kind = "trade-offs" => i - 1 < 2
        /\ ~(/\ HasKind(reason.bullets, "budget")
             /\ HasKind(reason.bullets, "strong on")
             /\ HasKind(reason.bullets, "trade-offs"))

\* C6 witness: a row with a budget clause, a strong component and a weak
\* component, whose reason stops at two clauses.
C6_Witness ==
    /\ pc = "reason"
    /\ weak(row) # <<>>
    /\ HasKind(reason.bullets, "budget")
    /\ HasKind(reason.bullets, "strong on")
    /\ Len(reason.bullets) = 2

\* the place of a component in the canonical order
CanonicalIndex(name) == CHOOSE i \in 1..Len(PartKeys) : PartKeys[i] = name

\* C7: compute_weighted_contributions lists the eight contributions in
\* non-increasing order (no line is smaller than a later one), and two
\* components with equal contribution appear in the canonical order price,
\* bedroom, bathroom, type, condition, year, size, location.
C7_ContributionsCanonicalOrder ==
    pc = "contrib" =>
        /\ Len(contrib) = Len(PartKeys)
        /\ \A i, j \in 1..Len(contrib) :
              i < j =>
                LET a == contrib[i].weighted_contribution
                    b == contrib[j].weighted_contribution
                IN  /\ ~(a.t = "num" /\ b.t = "num" /\ a.v < b.v)
                    /\ FloatEq(a, b) =>
                          CanonicalIndex(contrib[i].component)
                            < CanonicalIndex(contrib[j].component)

InUnit(x) == x.t = "num" /\ 0 <= x.v /\ x.v <= 100

\* C8: clamp01(x) is a number in [0,1] and clamp01(clamp01(x)) equals
\* clamp01(x), for every similarity cell a raw row can hold.
C8_Clamp01RangeIdempotent ==
    pc = "clamp01" =>
        \A i \in 1..Len(clamped) :
            /\ InUnit(clamped[i])
            /\ FloatEq(reclamped[i], clamped[i])

OverBudget(r) ==
    LET g == safe_float(Get(r, "g_budget", NaN), NaN)
    IN  g.t = "num" /\ g.v < 85

\* C10 as stated: a row whose g_budget is a number below 0.85 and that has
\* two or more components <= 0.35 never gets a "trade-offs" clause.
C10_OverBudgetNeverTradeoffs ==
    (pc = "reason" /\ OverBudget(row) /\ Len(weak(row)) >= 2)
        => ~HasKind(reason.bullets, "trade-offs")

\* C10 amended: such a row gets no "trade-offs" clause when at least one of
\* its components is >= 0.80, and gets one when none is.
C10_OverBudgetTradeoffsIffNoStrong ==
    (pc = "reason" /\ OverBudget(row) /\ Len(weak(row)) >= 2)
        => (HasKind(reason.bullets, "trade-offs") <=> strong(row) = <<>>)

\* C10 witness: an over-budget row with two weak components and a strong one.
C10_Witness ==
    /\ pc = "reason"
    /\ OverBudget(row)
    /\ Len(weak(row)) >= 2
    /\ strong(row) # <<>>
    /\ ~HasKind(reason.bullets, "trade-offs")

(***************************************************************************)
(* Tables                                                                  *)
(*                                                                         *)
(* A normalized row is a function from column names to cells: a float for  *)
(* a numeric column, a string for a categorical one, and the sequence of   *)
(* its characters for "Property ID" (the search reads it by character).    *)
(* MatchScore, Price, Size and Year Built are in units; g_budget is in     *)
(* hundredths.                                                             *)
(***************************************************************************)
Rec(pid, loc, type, cond, price, size, score, gate, year) ==
    ("Property ID" :> pid) @@ ("Location" :> loc) @@ ("Type" :> type)
    @@ ("Condition" :> cond) @@ ("Price" :> price) @@ ("Size" :> size)
    @@ ("MatchScore" :> score) @@ ("g_budget" :> gate) @@ ("Year Built" :> year)

\* One user's rows as the script holds them after
\* user_df.sort_values("MatchScore", ascending=False): best score first,
\* not-a-number scores last.  Property IDs are unique within a user.
Catalogue == <<
    Rec(<<"1","0","1">>, "A", "House", "New", Num(300), Num(50), Num(90), Num(100), Num(2000)),
    Rec(<<"2","0","2">>, "B", "Flat",  "New", Num(200), Num(60), Num(90), Num(99),  Num(2010)),
    Rec(<<"3","1","0">>, "A", "Flat",  "Old", Num(200), Num(50), Num(80), Num(84),  NaN),
    Rec(<<"4","1","1">>, "B", "House", "Old", Num(100), Num(70), Num(70), Num(100), Num(2010)),
    Rec(<<"5","1","0">>, "A", "House", "New", Num(400), Num(80), Num(60), Num(90),  Num(1990)),
    Rec(<<"1","1","2">>, "B", "Flat",  "New", Num(150), Num(40), Num(50), Num(95),  Num(2005)),
    Rec(<<"6","2","0">>, "A", "Flat",  "New", NaN,      Num(45), Num(45), Num(100), Num(2003)),
    Rec(<<"6","2","1">>, "B", "House", "Old", Num(250), NaN,     Num(42), Num(100), Num(2004)),
    Rec(<<"6","2","2">>, "A", "Flat",  "New", Num(220), Num(52), Num(41), NaN,      Num(2006)),
    Rec(<<"3","0","1">>, "B", "Flat",  "Old", Num(300), Num(65), Num(40), Num(85),  NaN),
    Rec(<<"1","2">>,     "A", "Flat",  "Old", Num(250), Num(55), Num(0),  Num(0),   Num(1980)),
    Rec(<<"7","1","3">>, "B", "House", "New", Num(350), Num(65), Num(-5), Num(100), Num(2001)),
    Rec(<<"6","2","3">>, "A", "House", "New", Num(260), Num(58), NaN,     Num(100), Num(2002)) >>

RECURSIVE Pick(_)
\* the rows of the catalogue at the positions S, in catalogue order
Pick(S) == IF S = {} THEN <<>>
           ELSE <<Catalogue[SetMin(S)]>> \o Pick(S \ {SetMin(S)})

\* the tables of at most n rows
Tables(n) == {Pick(S) : S \in {T \in SUBSET (1..Len(Catalogue)) : Cardinality(T) <= n}}

MaxFilterRows == 3

(***************************************************************************)
(* apply_filters                                                           *)
(***************************************************************************)
None == <<>>

\* Series.isin(values)
isin(x, values) == x \in values

\* (out[c] >= range[0]) & (out[c] <= range[1])
InRange(x, range) == Ge(x, Num(range[1])) /\ Le(x, Num(range[2]))

AtLeastNanPasses(x, m) == ~(x.t = "num" /\ x.v < m)
AtLeastStrict(x, m) == x.t = "num" /\ x.v > m
\* out[c] >= m
AtLeast(x, m) == Ge(x, Num(m))

apply_filters(df, loc_filter, type_filter, cond_filter, price_range, size_range, min_score, min_budget_gate) ==
    LET InLoc(r) == isin(r["Location"], loc_filter)
        InType(r) == isin(r["Type"], type_filter)
        InCond(r) == isin(r["Condition"], cond_filter)
        InPrice(r) == InRange(r["Price"], price_range)
        InSize(r) == InRange(r["Size"], size_range)
        ScoreOk(r) == AtLeast(r["MatchScore"], min_score)
        GateOk(r) == AtLeast(r["g_budget"], min_budget_gate)
        out1 == IF loc_filter # {} THEN SelectSeq(df, InLoc) ELSE df
        out2 == IF type_filter # {} THEN SelectSeq(out1, InType) ELSE out1
        out3 == IF cond_filter # {} THEN SelectSeq(out2, InCond) ELSE out2
        out4 == IF price_range # None THEN SelectSeq(out3, InPrice) ELSE out3
        out5 == IF size_range # None THEN SelectSeq(out4, InSize) ELSE out4
        out6 == SelectSeq(out5, ScoreOk)
    IN  SelectSeq(out6, GateOk)

\* the arguments the filter is exercised with
LocFilters == {{}, {"A"}}
TypeFilters == {{}, {"Flat"}}
CondFilters == {{}, {"New"}}
PriceRanges == {None, <<150, 300>>}
SizeRanges == {None, <<45, 60>>}
MinScores == {0, 80}
MinGates == {0, 85}

InitFilter ==
    /\ pc = "user_df"
    /\ user_df \in Tables(MaxFilterRows)
    /\ criteria = NoCriteria
    /\ filtered = <<>>
    /\ RowIdle
    /\ RankIdle
    /\ NormIdle

ApplyFilters ==
    /\ pc = "user_df"
    /\ \E lf \in LocFilters, tf \in TypeFilters, cf \in CondFilters,
          pr \in PriceRanges, sr \in SizeRanges,
          ms \in MinScores, mg \in MinGates :
          /\ criteria' = [loc_filter |-> lf, type_filter |-> tf, cond_filter |-> cf,
                          price_range |-> pr, size_range |-> sr,
                          min_score |-> ms, min_budget_gate |-> mg]
          /\ filtered' = apply_filters(user_df, lf, tf, cf, pr, sr, ms, mg)
    /\ pc' = "filtered"
    /\ UNCHANGED <<user_df, rowVars, rankVars, normVars>>

NextFilter == ApplyFilters

SpecFilter == InitFilter /\ [][NextFilter]_vars

(***************************************************************************)
(* Claims about apply_filters (checked under SpecFilter)                   *)
(***************************************************************************)
InTable(df, r) == \E i \in 1..Len(df) : df[i] = r

\* C1: a row whose MatchScore or g_budget is not-a-number is never in the
\* output of apply_filters, and a row whose Price (Size) is not-a-number is
\* never in the output when a price (size) range is given.
C1_FailClosedOnNaN ==
    pc = "filtered" =>
        \A i \in 1..Len(user_df) :
            LET r == user_df[i]
            IN  (\/ IsNaN(r["MatchScore"])
                 \/ IsNaN(r["g_budget"])
                 \/ (IsNaN(r["Price"]) /\ criteria.price_range # None)
                 \/ (IsNaN(r["Size"]) /\ criteria.size_range # None))
                => ~InTable(filtered, r)

HasNaN(df, col) == \E i \in 1..Len(df) : IsNaN(df[i][col])

\* C1 witness: the filter ran, with a price range given, on a table holding
\* a row with a not-a-number score and a row with a not-a-number price, and
\* kept some other row.
C1_Witness ==
    /\ pc = "filtered"
    /\ HasNaN(user_df, "MatchScore")
    /\ HasNaN(user_df, "Price")
    /\ criteria.price_range # None
    /\ filtered # <<>>

EmptyCriteria ==
    /\ criteria.loc_filter = {} /\ criteria.type_filter = {}
    /\ criteria.cond_filter = {}
    /\ criteria.price_range = None /\ criteria.size_range = None
    /\ criteria.min_score = 0 /\ criteria.min_budget_gate = 0

\* C2 as stated: with empty criteria and the default thresholds 0 and 0,
\* apply_filters returns the input unchanged, whatever the rows hold.
C2_EmptyCriteriaIdentity ==
    (pc = "filtered" /\ EmptyCriteria) => filtered = user_df

PassesDefaults(r) ==
    /\ r["MatchScore"].t = "num" /\ r["MatchScore"].v >= 0
    /\ r["g_budget"].t = "num" /\ r["g_budget"].v >= 0

\* C2 amended: with empty criteria and the default thresholds 0 and 0,
\* apply_filters returns, in input order, exactly the rows whose MatchScore
\* and g_budget are numbers >= 0; so it returns the input unchanged when
\* every row is such a row (Price and Size may be not-a-number).
C2_EmptyCriteriaKeepsNonNegative ==
    (pc = "filtered" /\ EmptyCriteria) =>
        /\ filtered = SelectSeq(user_df, PassesDefaults)
        /\ (\A i \in 1..Len(user_df) : PassesDefaults(user_df[i]))
              => filtered = user_df

\* C2 witness: empty criteria on a table of rows with numeric scores and
\* gates >= 0, one at the threshold 0 and one with a not-a-number price.
C2_Witness ==
    /\ pc = "filtered" /\ EmptyCriteria
    /\ Len(user_df) >= 2
    /\ \A i \in 1..Len(user_df) : PassesDefaults(user_df[i])
    /\ \E i \in 1..Len(user_df) : user_df[i]["MatchScore"].v = 0
    /\ HasNaN(user_df, "Price")
    /\ filtered = user_df

(***************************************************************************)
(* Ranking: sort, search, top-k                                            *)
(***************************************************************************)
\* sort_col_map: the column and the `ascending` flag of each choice
sort_col_map ==
    ("MatchScore (desc)" :> <<"MatchScore", FALSE>>)
    @@ ("Price (asc)" :> <<"Price", TRUE>>)
    @@ ("Price (desc)" :> <<"Price", FALSE>>)
    @@ ("Size (desc)" :> <<"Size", FALSE>>)
    @@ ("Year Built (desc)" :> <<"Year Built", FALSE>>)
    @@ ("Budget gate (desc)" :> <<"g_budget", FALSE>>)

RECURSIVE lstrip(_)
lstrip(str) == IF str # <<>> /\ Head(str) = " " THEN lstrip(Tail(str)) ELSE str
RECURSIVE rstrip(_)
rstrip(str) == IF str # <<>> /\ str[Len(str)] = " "
               THEN rstrip(SubSeq(str, 1, Len(str) - 1)) ELSE str
\* str.strip()
strip(str) == rstrip(lstrip(str))

(***************************************************************************)
(* Series.str.contains(pat) is called without regex=False, so pat is a     *)
(* regular expression handed to re.search.  The patterns modelled are      *)
(* those made of ordinary characters, "." (any character), "|"             *)
(* (alternation) and "(" (which opens a group; a pattern with an unclosed  *)
(* group does not compile and str.contains raises re.error).               *)
(***************************************************************************)
RECURSIVE Alternatives(_, _)
\* the branches of the pattern, split at "|"; cur is the branch being read
Alternatives(pat, cur) ==
    IF pat = <<>> THEN <<cur>>
    ELSE IF Head(pat) = "|" THEN <<cur>> \o Alternatives(Tail(pat), <<>>)
    ELSE Alternatives(Tail(pat), Append(cur, Head(pat)))

\* the branch matches text at offset off
MatchesAt(text, branch, off) ==
    \A j \in 1..Len(branch) : branch[j] = "." \/ branch[j] = text[off + j]

\* re.compile(pat) succeeds
Compiles(pat) == \A j \in 1..Len(pat) : pat[j] # "("

\* re.search(pat, text) finds a match
re_search(pat, text) ==
    \E a \in 1..Len(Alternatives(pat, <<>>)) :
        LET branch == Alternatives(pat, <<>>)[a]
        IN  \E off \in 0..(Len(text) - Len(branch)) : MatchesAt(text, branch, off)

\* filtered[filtered["Property ID"].astype(str).str.contains(pat)]
str_contains(df, pat) ==
    LET Hit(r) == re_search(pat, r["Property ID"])
    IN  SelectSeq(df, Hit)

\* the search stage: skipped when the stripped text is empty
Searched(df, text) ==
    IF strip(text) # <<>> THEN str_contains(df, strip(text)) ELSE df

\* df.head(n)
head(df, n) == Take(df, n)

TruncateThenSearch(df, text, n) == Searched(head(df, n), text)
\* the search, then the top-k cut
SearchThenTruncate(df, text, n) == head(Searched(df, text), n)

MaxRankRows == 7
\* the lowest value of the Top-K slider
TopKMin == 5

\* the tables apply_filters hands to the ranking, under the sidebar's
\* defaults: no categorical filter, the full price and size ranges, and the
\* thresholds 0 and 0
RankInputs ==
    {apply_filters(u, {}, {}, {}, <<100, 400>>, <<40, 80>>, 0, 0) :
        u \in Tables(MaxRankRows)}

SortChoices == DOMAIN sort_col_map
SearchTexts == {<<>>, <<"1","0">>, <<" ","1","0"," ">>, <<"1",".","1">>,
                <<"0","|","3">>, <<"(","1">>, <<"1">>}
TopKs == {TopKMin, TopKMin + 1}

InitRank ==
    /\ pc = "filtered"
    /\ filtered \in RankInputs
    /\ RankIdle
    /\ RowIdle
    /\ FilterIdle
    /\ NormIdle

\* lines 307-315: sort, search, take the top k
Rank ==
    /\ pc = "filtered"
    /\ \E choice \in SortChoices, text \in SearchTexts, k \in TopKs :
          /\ sort_choice' = choice
          /\ search_pid' = text
          /\ top_k' = k
          /\ sorted_df' \in sort_values(filtered, sort_col_map[choice][1],
                                        sort_col_map[choice][2])
          /\ IF strip(text) # <<>> /\ ~Compiles(strip(text))
             THEN \* re.error: the script run ends here
                  /\ pc' = "error"
                  /\ UNCHANGED <<searched_df, display_df>>
             ELSE /\ searched_df' = Searched(sorted_df', text)
                  /\ display_df' = SearchThenTruncate(sorted_df', text, k)
                  /\ pc' = "displayed"
    /\ UNCHANGED <<filtered, rowVars, filterVars, normVars>>

NextRank == Rank

SpecRank == InitRank /\ [][NextRank]_vars

(***************************************************************************)
(* Claims about the ranking (checked under SpecRank)                       *)
(***************************************************************************)
SortCol == sort_col_map[sort_choice][1]
SortAscending == sort_col_map[sort_choice][2]

\* r passes the search as the script applies it
MatchesSearch(r) ==
    strip(search_pid) = <<>> \/ re_search(strip(search_pid), r["Property ID"])

\* no row is followed by a row that the chosen key ranks before it; rows
\* with a not-a-number key come last
IsSortedBy(df, col, ascending) ==
    \A i, j \in 1..Len(df) :
        i < j =>
            /\ IsNaN(df[i][col]) => IsNaN(df[j][col])
            /\ (df[i][col].t = "num" /\ df[j][col].t = "num") =>
                  IF ascending THEN df[i][col].v <= df[j][col].v
                               ELSE df[i][col].v >= df[j][col].v

SameRows(a, b) ==
    /\ Len(a) = Len(b)
    /\ \A i \in 1..Len(a) : InTable(b, a[i])

\* C3: the displayed list is the first min(top_k, m) rows of the sequence
\* obtained by sorting the filtered rows by the chosen key and then keeping
\* the rows that match the search, m being the number of matching rows.
C3_SortSearchThenTopK ==
    pc = "displayed" =>
        LET matching == SelectSeq(sorted_df, MatchesSearch)
        IN  /\ SameRows(sorted_df, filtered)
            /\ IsSortedBy(sorted_df, SortCol, SortAscending)
            /\ Len(display_df) = Min(top_k, Len(matching))
            /\ \A i \in 1..Len(display_df) : display_df[i] = matching[i]

\* C3 witness: more rows match than are shown, and a row that does not
\* match sits among the first top_k rows of the sorted table.
C3_Witness ==
    /\ pc = "displayed"
    /\ Len(SelectSeq(sorted_df, MatchesSearch)) > top_k
    /\ \E i \in 1..top_k : ~MatchesSearch(sorted_df[i])
    /\ Len(display_df) = top_k

PositionIn(df, r) == CHOOSE i \in 1..Len(df) : df[i] = r

\* C4: the sort is stable: two rows with equal sort keys appear in the
\* sorted table in the same relative order as in the input.
C4_SortStable ==
    pc \in {"displayed", "error"} =>
        \A i, j \in 1..Len(sorted_df) :
            (i < j /\ FloatEq(sorted_df[i][SortCol], sorted_df[j][SortCol]))
                => PositionIn(filtered, sorted_df[i]) < PositionIn(filtered, sorted_df[j])

\* s occurs in text as a contiguous run of characters
LiteralContains(text, s) ==
    \E off \in 0..(Len(text) - Len(s)) : SubSeq(text, off + 1, off + Len(s)) = s

\* C5: for a non-empty search string s, a row is retained iff its Property
\* ID contains s literally, character for character.
C5_SearchIsLiteralSubstring ==
    (pc = "displayed" /\ search_pid # <<>>) =>
        \A i \in 1..Len(sorted_df) :
            InTable(searched_df, sorted_df[i])
                <=> LiteralContains(sorted_df[i]["Property ID"], search_pid)

(***************************************************************************)
(* ensure_columns                                                          *)
(*                                                                         *)
(* A raw table is [columns, rows]: the set of columns the CSV has and its  *)
(* rows, each a function from those columns to cells.  A cell of a numeric *)
(* or similarity column is a float, not-a-number (an empty field) or Text  *)
(* (a string pd.to_numeric cannot parse).  A cell of a categorical or      *)
(* identifier column is [k, n, s]: an integer n (k = "int"), the float n.0 *)
(* (k = "float"), the string s (k = "str") or an empty field               *)
(* (k = "missing").  Strings are sequences of characters.                  *)
(***************************************************************************)
NumericCols == {"MatchScore", "Price", "Size", "Bedrooms", "Bathrooms",
                "Year Built", "g_budget"}
CompCols == {COMP_COLS[i] : i \in 1..Len(COMP_COLS)}
CategoricalCols == {"User ID", "Property ID", "Location", "Type", "Condition"}
IdCols == {"User ID", "Property ID"}

IntCell(n) == [k |-> "int", n |-> n, s |-> <<>>]
FloatCell(n) == [k |-> "float", n |-> n, s |-> <<>>]
StrCell(str) == [k |-> "str", n |-> 0, s |-> str]
MissingCell == [k |-> "missing", n |-> 0, s |-> <<>>]

Digits == <<"0", "1", "2", "3", "4", "5", "6", "7", "8", "9">>
IsDigit(ch) == \E d \in 1..Len(Digits) : Digits[d] = ch
DigitValue(ch) == (CHOOSE d \in 1..Len(Digits) : Digits[d] = ch) - 1

RECURSIVE IntStr(_)
\* str(n) for an integer n >= 0
IntStr(n) == IF n < 10 THEN <<Digits[n + 1]>>
             ELSE IntStr(n \div 10) \o <<Digits[(n % 10) + 1]>>

RECURSIVE DigitsToInt(_)
DigitsToInt(str) == IF str = <<>> THEN 0
                    ELSE 10 * DigitsToInt(SubSeq(str, 1, Len(str) - 1))
                         + DigitValue(str[Len(str)])

\* pd.to_numeric(x, errors="coerce")
to_numeric(x) == IF x.t = "text" THEN NaN ELSE x

\* Series.fillna(value)
fillna(x, value) == IF IsNaN(x) THEN Num(value) ELSE x

CoerceClipNoFill(x) == np_clip(to_numeric(x), 0, 100)
\* pd.to_numeric(df[c], errors="coerce").fillna(0.5).clip(0, 1)
CoerceFillClip(x) == np_clip(fillna(to_numeric(x), 50), 0, 100)

\* astype(str) of one cell
astype_str(x) ==
    CASE x.k = "int" -> IntStr(x.n)
      [] x.k = "float" -> IntStr(x.n) \o <<".", "0">>
      [] x.k = "missing" -> <<"n", "a", "n">>
      [] OTHER -> x.s

\* the text without a trailing ".0"
IntegralPart(str) ==
    IF Len(str) > 2 /\ SubSeq(str, Len(str) - 1, Len(str)) = <<".", "0">>
    THEN SubSeq(str, 1, Len(str) - 2) ELSE str

\* str(int(float(s))), or str(s) when float or int raises.  float accepts
\* the texts modelled here when they are digits, optionally followed by
\* ".0"; "nan" parses to not-a-number, on which int raises.
to_intish(str) ==
    LET d == IntegralPart(str)
    IN  IF d # <<>> /\ \A j \in 1..Len(d) : IsDigit(d[j])
        THEN IntStr(DigitsToInt(d))
        ELSE str

Unknown == <<"U", "n", "k", "n", "o", "w", "n">>

\* the cell of column c in row i of the returned table
NormCell(df, i, c) ==
    IF c \in NumericCols
    THEN IF c \notin df.columns THEN NaN ELSE to_numeric(df.rows[i][c])
    ELSE IF c \in CompCols
    THEN CoerceFillClip(IF c \notin df.columns THEN Num(50) ELSE df.rows[i][c])
    ELSE IF c \in CategoricalCols
    THEN LET text == IF c \notin df.columns THEN Unknown
                     ELSE astype_str(df.rows[i][c])
         IN  IF c \in IdCols THEN to_intish(text) ELSE text
    ELSE df.rows[i][c]

ensure_columns(df) ==
    LET cols == df.columns \cup NumericCols \cup CompCols \cup CategoricalCols
    IN  [columns |-> cols,
         rows |-> [i \in 1..Len(df.rows) |-> [c \in cols |-> NormCell(df, i, c)]]]

\* the raw tables ensure_columns is exercised with
SimColumnSets == {{}, {"s_price"}, {"s_price", "s_loc"}, {"s_bed", "s_year"}}
MetaColumnSets == SUBSET {"g_budget", "Property ID", "Location"}

RawCells(c) ==
    IF c \in CompCols THEN {NaN, Text, Num(-50), Num(30), Num(150)}
    ELSE IF c \in NumericCols THEN {NaN, Text, Num(90)}
    ELSE IF c \in IdCols THEN {IntCell(101), FloatCell(101), StrCell(<<"A", "7">>), MissingCell}
    ELSE {StrCell(<<"A">>), MissingCell}

AllRawCells == UNION {RawCells(c) : c \in CompCols \cup {"g_budget", "Property ID", "Location"}}

\* the rows over the columns cols, each cell drawn from its column's cells
RawRows(cols) ==
    UNION {{r} : r \in {f \in [cols -> AllRawCells] : \A c \in cols : f[c] \in RawCells(c)}}

MaxNormRows == 2

RawColumnSets == SimColumnSets \cup MetaColumnSets

InitNorm ==
    /\ pc = "raw"
    /\ \E cols \in RawColumnSets, n \in 0..MaxNormRows :
          \E rs \in [1..n -> RawRows(cols)] :
              raw_df = [columns |-> cols, rows |-> rs]
    /\ recs_all = NoTable
    /\ RowIdle
    /\ FilterIdle
    /\ filtered = <<>>
    /\ RankIdle

EnsureColumns ==
    /\ pc = "raw"
    /\ recs_all' = ensure_columns(raw_df)
    /\ pc' = "normalized"
    /\ UNCHANGED <<raw_df, rowVars, filterVars, filtered, rankVars>>

NextNorm == EnsureColumns

SpecNorm == InitNorm /\ [][NextNorm]_vars

(***************************************************************************)
(* Claims about ensure_columns (checked under SpecNorm)                    *)
(***************************************************************************)
\* C9: after ensure_columns every similarity component of every row is a
\* number in [0,1]; it is 0.5 when its column is absent or its value is
\* missing or not parseable, and a parseable value below 0 or above 1 is
\* clamped to 0 or 1.
C9_SimilaritiesNormalized ==
    pc = "normalized" =>
        /\ Len(recs_all.rows) = Len(raw_df.rows)
        /\ \A i \in 1..Len(recs_all.rows) : \A c \in CompCols :
              LET out == recs_all.rows[i][c]
              IN  /\ InUnit(out)
                  /\ c \notin raw_df.columns => out = Num(50)
                  /\ c \in raw_df.columns =>
                        LET x == raw_df.rows[i][c]
                        IN  /\ x.t \in {"nan", "text"} => out = Num(50)
                            /\ (x.t = "num" /\ x.v < 0) => out = Num(0)
                            /\ (x.t = "num" /\ x.v > 100) => out = Num(100)

\* C9 witness: a normalized table whose raw s_price column held a missing
\* value in one row and a value above 1 in another, and which had no
\* s_bed column.
C9_Witness ==
    /\ pc = "normalized"
    /\ "s_price" \in raw_df.columns /\ "s_bed" \notin raw_df.columns
    /\ Len(raw_df.rows) = 2
    /\ raw_df.rows[1]["s_price"] = NaN
    /\ raw_df.rows[2]["s_price"] = Num(150)
    /\ recs_all.rows[1]["s_price"] = Num(50)
    /\ recs_all.rows[2]["s_price"] = Num(100)
    /\ recs_all.rows[1]["s_bed"] = Num(50)

====
